---- MODULE Spec2Model ----
(***************************************************************************)
(* Model of the interaction-logging service (src/app.py): module           *)
(* initialisation, the POST /log_interaction handler, the GET /health      *)
(* handler, and the `interactions` table they act on.                      *)
(*                                                                         *)
(* The handler is split where it talks to the database, so that handlers   *)
(* of concurrent requests interleave at session.commit(): everything       *)
(* before it (lines 69-106) only reads the request and the environment.    *)
(***************************************************************************)
EXTENDS Integers, Sequences, FiniteSets, TLC

(* ------------------------------ bounds -------------------------------- *)
\* number of request handlers that can run at the same time
MaxProcs == 2
\* size of the space uuid.uuid4() draws from (small, so that collisions happen)
MaxId == 2

Procs == 1..MaxProcs
Ids == 1..MaxId

(* ------------------------------ values -------------------------------- *)
\* Python's None (a missing header, an unset environment variable, a NULL column)
None == "<None>"

\* JSON values as the handler sees them after request.get_json()
Absent == [type |-> "absent", val |-> ""]
JNull == [type |-> "null", val |-> ""]
JStr(s) == [type |-> "string", val |-> s]
JNum(s) == [type |-> "number", val |-> s]

\* bool(v) of a parsed JSON scalar: None, "" and 0 are falsy
Truthy(v) ==
    \/ v.type = "string" /\ v.val # ""
    \/ v.type = "number" /\ v.val # "0"

\* dict.get(key): a missing key reads as None
Get(body, key) == IF body[key].type = "absent" THEN JNull ELSE body[key]

\* v[:50] in the success log line: defined for str, TypeError for a number
Sliceable(v) == v.type = "string"

\* what a Text/String column holds after the driver has bound the value
ColumnValue(v) == IF v.type = "null" THEN None ELSE v.val

VARIABLES
    phase,        \* "stopped", "serving", or "crashed" (the import raised)
    environ,      \* os.environ: DATABASE_URL and API_KEY
    tableExists,  \* whether the database has the interactions table
    rows,         \* the rows of the interactions table, in commit order
    pc,           \* where each handler is
    req,          \* the request each handler is serving
    resp,         \* the response each handler has built
    session,      \* the SQLAlchemy session of each handler
    wrote,        \* history: rows the handler's commits have added
    before        \* history: the table as it was when the request arrived

vars == <<phase, environ, tableExists, rows, pc, req, resp, session, wrote, before>>

(* ------------------------------ inputs -------------------------------- *)
\* values of the DATABASE_URL and API_KEY environment variables
DatabaseUrls == {None, "", "postgresql://db"}
ApiKeys == {None, "", "s1"}

\* values of the X-API-KEY request header (None: the header is missing)
Headers == {None, "", "s1", "bad"}

\* values a client sends for userMessage and gptResponse
FieldVals == {Absent, JNull, JStr(""), JStr("hi"), JNum("5")}

\* readings of the server's clock, and the timestamp a client may claim
ClockReadings == {"T1", "T2"}
ClientTime == "T0"

\* the optional keys a client sends along: none, the two documented ones,
\* or an id and a timestamp of its own
NoExtras == [userId |-> Absent, conversationId |-> Absent, id |-> Absent, timestamp |-> Absent]
WithIds == [userId |-> JStr("u1"), conversationId |-> JStr("c1"), id |-> Absent, timestamp |-> Absent]
WithClientKeys == [userId |-> Absent, conversationId |-> Absent, id |-> JNum("1"), timestamp |-> JStr(ClientTime)]

MkBody(kind, um, gr, e) ==
    [kind |-> kind, userMessage |-> um, gptResponse |-> gr,
     userId |-> e.userId, conversationId |-> e.conversationId,
     id |-> e.id, timestamp |-> e.timestamp]

\* request bodies: "malformed" is a body that is not JSON (or no body at all),
\* "null" is the JSON null, "falsy" a JSON [], "", 0 or false, "truthy" any
\* other JSON value that is not an object, "object" a JSON object
NonObjectKinds == {"malformed", "null", "falsy", "truthy"}

Bodies ==
    { MkBody(k, Absent, Absent, NoExtras) : k \in NonObjectKinds }
    \cup { MkBody("object", um, gr, NoExtras) : um \in FieldVals, gr \in FieldVals }
    \cup { MkBody("object", JStr("hi"), JStr("hi"), e) : e \in {WithIds, WithClientKeys} }
    \cup { MkBody("object", Absent, Absent, WithIds) }

ValidBody == MkBody("object", JStr("hi"), JStr("hi"), NoExtras)

Post(h, b) == [path |-> "/log_interaction", header |-> h, body |-> b]

\* POST requests: every body with the right key, and a valid, an invalid and
\* an unparseable body with each of the other header values
Requests ==
    { Post("s1", b) : b \in Bodies }
    \cup { Post(h, b) : h \in Headers \ {"s1"},
                        b \in { ValidBody, MkBody("object", Absent, Absent, WithIds),
                                MkBody("malformed", Absent, Absent, NoExtras) } }

\* the requests concurrent handlers are run on: one per way through the handler
ConcRequests ==
    { Post("s1", ValidBody),
      Post("s1", MkBody("object", JNum("5"), JStr("hi"), NoExtras)),
      Post("s1", MkBody("object", JStr("hi"), Absent, NoExtras)),
      Post("s1", MkBody("truthy", Absent, Absent, NoExtras)),
      Post("bad", ValidBody) }

NoBody == MkBody("none", Absent, Absent, NoExtras)
NoReq == [path |-> "", header |-> None, body |-> NoBody]

(* ----------------------------- responses ------------------------------ *)
Response(status, json, body) == [status |-> status, json |-> json, body |-> body]

NoResp == Response(0, FALSE, "")
ConfigError == Response(500, TRUE, "Server configuration error: API key not set")
Unauthorized == Response(401, TRUE, "Unauthorized: Invalid API Key")
NoJsonData == Response(400, TRUE, "No JSON data provided")
FieldsRequired == Response(400, TRUE, "'userMessage' and 'gptResponse' are required")
Success == Response(200, TRUE, "Interaction logged successfully")
StorageError == Response(500, TRUE, "Failed to log interaction")
Healthy == Response(200, TRUE, "API is running")
\* the framework's own answers: werkzeug's BadRequest raised by get_json(),
\* and the 500 page for an exception that escapes the view function
BadRequest == Response(400, FALSE, "Bad Request")
InternalServerError == Response(500, FALSE, "Internal Server Error")

\* the value passed on when every check of lines 69-94 lets the request through
Pass == Response(0, TRUE, "pass")

(* ---------------------------- the session ----------------------------- *)
NoSession == [state |-> "none", pending |-> <<>>, rolledBack |-> FALSE, commits |-> 0, rowId |-> 0]

\* Interaction(...) of lines 99-105, not yet flushed: no id yet
Interaction(body, t) ==
    [user_id |-> Get(body, "userId"),
     user_message |-> Get(body, "userMessage"),
     gpt_response |-> Get(body, "gptResponse"),
     conversation_id |-> Get(body, "conversationId"),
     timestamp |-> t]

\* the row the INSERT of a pending Interaction writes, with the id the column
\* default produced at flush
Row(i, id) ==
    [id |-> id,
     user_id |-> ColumnValue(i.user_id),
     user_message |-> ColumnValue(i.user_message),
     gpt_response |-> ColumnValue(i.gpt_response),
     conversation_id |-> ColumnValue(i.conversation_id),
     timestamp |-> i.timestamp]

RowIds == { rows[k].id : k \in DOMAIN rows }

(* ----------------------- the checks of the handler -------------------- *)
\* `not expected_api_key`, `not incoming_api_key`: None and "" are both falsy
KeySet(k) == k # None /\ k # ""

\* a variant that compares the keys before it looks at the configuration
Authenticate_KeyFirst(expected, incoming) ==
    IF ~KeySet(incoming) \/ incoming # expected THEN Unauthorized
    ELSE IF ~KeySet(expected) THEN ConfigError
    ELSE Pass

\* a variant with `and` for `or` in line 76: a missing header is let through
Authenticate_MissingHeaderPasses(expected, incoming) ==
    IF ~KeySet(expected) THEN ConfigError
    ELSE IF KeySet(incoming) /\ incoming # expected THEN Unauthorized
    ELSE Pass

\* lines 69-78: the configuration check comes first, then the key comparison
Authenticate(expected, incoming) ==
    IF ~KeySet(expected) THEN ConfigError
    ELSE IF ~KeySet(incoming) \/ incoming # expected THEN Unauthorized
    ELSE Pass

\* a JSON object with no key at all: `not data` is true of {}
EmptyObject(body) ==
    /\ body.kind = "object"
    /\ \A k \in {"userMessage", "gptResponse", "userId", "conversationId", "id", "timestamp"} :
          body[k].type = "absent"

\* lines 80-94: get_json() raises BadRequest on a body that does not parse;
\* `not data` rejects None and every falsy value; data.get raises AttributeError
\* on a value that is not a dict, which no try block encloses
ParseAndValidate(body) ==
    IF body.kind = "malformed" THEN BadRequest
    ELSE IF body.kind \in {"null", "falsy"} \/ EmptyObject(body) THEN NoJsonData
    ELSE IF body.kind # "object" THEN InternalServerError
    ELSE IF ~Truthy(Get(body, "userMessage")) \/ ~Truthy(Get(body, "gptResponse"))
         THEN FieldsRequired
    ELSE Pass

\* lines 69-94 as a whole: the first check that fails answers the request
Check(r, expected) ==
    LET a == Authenticate(expected, r.header)
    IN  IF a # Pass THEN a ELSE ParseAndValidate(r.body)

(* --------------------------- initial state ---------------------------- *)
\* before the process is first started: an empty database
Init ==
    /\ phase = "stopped"
    /\ environ = [DATABASE_URL |-> None, API_KEY |-> None]
    /\ tableExists = FALSE
    /\ rows = <<>>
    /\ pc = [p \in Procs |-> "idle"]
    /\ req = [p \in Procs |-> NoReq]
    /\ resp = [p \in Procs |-> NoResp]
    /\ session = [p \in Procs |-> NoSession]
    /\ wrote = [p \in Procs |-> 0]
    /\ before = [p \in Procs |-> <<>>]

(* ------------------------ module initialisation ----------------------- *)
\* lines 20-58, run when the process starts with the given environment:
\* create_engine(DATABASE_URL) is outside any try block and raises on None
\* and on "", which ends the import; create_all is inside try/except, and
\* creates the table if it is absent and the database can be reached
Startup(url, key, reachable) ==
    /\ phase = "stopped"
    /\ environ' = [DATABASE_URL |-> url, API_KEY |-> key]
    /\ \/ /\ url \in {None, ""}
          /\ phase' = "crashed"
          /\ UNCHANGED tableExists
       \/ /\ url \notin {None, ""}
          /\ phase' = "serving"
          /\ tableExists' = (tableExists \/ reachable)
    /\ UNCHANGED <<rows, pc, req, resp, session, wrote, before>>

\* the process ends (a redeploy, a supervisor restarting it) once the requests
\* it was serving have been answered
Stop ==
    /\ phase \in {"serving", "crashed"}
    /\ \A p \in Procs : pc[p] = "idle"
    /\ phase' = "stopped"
    /\ UNCHANGED <<environ, tableExists, rows, pc, req, resp, session, wrote, before>>

(* ------------------------- POST /log_interaction ---------------------- *)
\* lines 64-106: the checks, then Session(), Interaction(...) with the
\* clock's reading t, and session.add
log_interaction(p, r, t) ==
    /\ phase = "serving"
    /\ pc[p] = "idle"
    /\ req' = [req EXCEPT ![p] = r]
    /\ LET c == Check(r, environ.API_KEY)
       IN  \/ /\ c # Pass
              /\ resp' = [resp EXCEPT ![p] = c]
              /\ pc' = [pc EXCEPT ![p] = "done"]
              /\ UNCHANGED session
           \/ /\ c = Pass
              /\ session' = [session EXCEPT ![p] =
                     [state |-> "open", pending |-> <<Interaction(r.body, t)>>,
                      rolledBack |-> FALSE, commits |-> 0, rowId |-> 0]]
              /\ pc' = [pc EXCEPT ![p] = "commit"]
              /\ UNCHANGED resp
    /\ UNCHANGED <<phase, environ, tableExists, rows, wrote>>

\* a variant without primary_key=True on the id column
PrimaryKeyOk_Unconstrained(id) == TRUE

\* the primary-key constraint on interactions.id (line 41)
PrimaryKeyOk(id) == id \notin RowIds

\* a str binds to a Text column with every driver; a number does with a driver
\* that renders it as a literal (the INSERT then stores its text), and raises
\* with one that checks the parameter's type
DriverBinds(i, lenient) ==
    (Sliceable(i.user_message) /\ Sliceable(i.gpt_response)) \/ lenient

\* line 107: session.commit() flushes the INSERT, with the id the column
\* default draws, and commits; it raises when the database cannot be reached,
\* the table is missing, the id is taken or a value does not bind
session_commit(p) ==
    /\ pc[p] = "commit"
    /\ \E id \in Ids, reachable \in BOOLEAN, lenient \in BOOLEAN :
          LET i == session[p].pending[1]
              ok == reachable /\ tableExists /\ PrimaryKeyOk(id) /\ DriverBinds(i, lenient)
          IN  \/ /\ ok
                 /\ rows' = Append(rows, Row(i, id))
                 /\ session' = [session EXCEPT ![p].pending = <<>>, ![p].rowId = id,
                                               ![p].commits = @ + 1]
                 /\ wrote' = [wrote EXCEPT ![p] = @ + 1]
                 /\ pc' = [pc EXCEPT ![p] = "log"]
              \/ /\ ~ok
                 /\ session' = [session EXCEPT ![p].commits = @ + 1]
                 /\ pc' = [pc EXCEPT ![p] = "except"]
                 /\ UNCHANGED <<rows, wrote>>
    /\ UNCHANGED <<phase, environ, tableExists, req, resp, before>>

\* lines 108-109: the success log line slices both values, then the 200 is built
log_success(p) ==
    /\ pc[p] = "log"
    /\ LET user_message == Get(req[p].body, "userMessage")
           gpt_response == Get(req[p].body, "gptResponse")
       IN  \/ /\ Sliceable(user_message) /\ Sliceable(gpt_response)
              /\ resp' = [resp EXCEPT ![p] = Success]
              /\ pc' = [pc EXCEPT ![p] = "finally"]
           \/ /\ ~(Sliceable(user_message) /\ Sliceable(gpt_response))
              /\ pc' = [pc EXCEPT ![p] = "except"]
              /\ UNCHANGED resp
    /\ UNCHANGED <<phase, environ, tableExists, rows, req, session, wrote, before>>

\* a variant whose except block builds the 500 without session.rollback()
handle_exception_NoRollback(p) ==
    /\ pc[p] = "except"
    /\ resp' = [resp EXCEPT ![p] = StorageError]
    /\ pc' = [pc EXCEPT ![p] = "finally"]
    /\ UNCHANGED <<phase, environ, tableExists, rows, req, session, wrote, before>>

\* lines 111-114: session.rollback() discards what the session still holds
\* (nothing of a transaction that was committed), then the 500 is built
handle_exception(p) ==
    /\ pc[p] = "except"
    /\ session' = [session EXCEPT ![p].pending = <<>>, ![p].rolledBack = TRUE]
    /\ resp' = [resp EXCEPT ![p] = StorageError]
    /\ pc' = [pc EXCEPT ![p] = "finally"]
    /\ UNCHANGED <<phase, environ, tableExists, rows, req, wrote, before>>

\* a variant with session.close() at the end of the try block, not in finally
session_close_OnlyOnSuccess(p) ==
    /\ pc[p] = "finally"
    /\ session' = IF resp[p] = Success
                  THEN [session EXCEPT ![p].state = "closed", ![p].pending = <<>>]
                  ELSE session
    /\ pc' = [pc EXCEPT ![p] = "done"]
    /\ UNCHANGED <<phase, environ, tableExists, rows, req, resp, wrote, before>>

\* lines 115-116: finally: session.close(), and the response goes out
session_close(p) ==
    /\ pc[p] = "finally"
    /\ session' = [session EXCEPT ![p].state = "closed", ![p].pending = <<>>]
    /\ pc' = [pc EXCEPT ![p] = "done"]
    /\ UNCHANGED <<phase, environ, tableExists, rows, req, resp, wrote, before>>

\* the worker is free for the next request
Return(p) ==
    /\ pc[p] = "done"
    /\ pc' = [pc EXCEPT ![p] = "idle"]
    /\ req' = [req EXCEPT ![p] = NoReq]
    /\ resp' = [resp EXCEPT ![p] = NoResp]
    /\ session' = [session EXCEPT ![p] = NoSession]
    /\ wrote' = [wrote EXCEPT ![p] = 0]
    /\ UNCHANGED <<phase, environ, tableExists, rows>>

(* ------------------------------ GET /health --------------------------- *)
\* a variant that puts the health check behind the key and pings the database
\* through a session it leaves open
health_check_Guarded(p, h) ==
    /\ phase = "serving"
    /\ pc[p] = "idle"
    /\ req' = [req EXCEPT ![p] = [path |-> "/health", header |-> h, body |-> NoBody]]
    /\ LET a == Authenticate(environ.API_KEY, h)
       IN  \/ /\ a # Pass
              /\ resp' = [resp EXCEPT ![p] = a]
              /\ UNCHANGED session
           \/ /\ a = Pass
              /\ resp' = [resp EXCEPT ![p] = Healthy]
              /\ session' = [session EXCEPT ![p].state = "open"]
    /\ pc' = [pc EXCEPT ![p] = "done"]
    /\ UNCHANGED <<phase, environ, tableExists, rows, wrote>>

\* lines 119-124: reads neither the header, the environment nor the database
health_check(p, h) ==
    /\ phase = "serving"
    /\ pc[p] = "idle"
    /\ req' = [req EXCEPT ![p] = [path |-> "/health", header |-> h, body |-> NoBody]]
    /\ resp' = [resp EXCEPT ![p] = Healthy]
    /\ pc' = [pc EXCEPT ![p] = "done"]
    /\ UNCHANGED <<phase, environ, tableExists, rows, session, wrote>>

(* --------------------------- specifications --------------------------- *)
\* the history variable `before`: kept when one request is served at a time
Snapshot(p) == before' = [before EXCEPT ![p] = rows]
Forget(p) == before' = [before EXCEPT ![p] = <<>>]

\* one request at a time, over every input
Next ==
    \/ \E url \in DatabaseUrls, key \in ApiKeys, reachable \in BOOLEAN :
          Startup(url, key, reachable)
    \/ Stop
    \/ \E r \in Requests, t \in ClockReadings : log_interaction(1, r, t) /\ Snapshot(1)
    \/ session_commit(1)
    \/ log_success(1)
    \/ handle_exception(1)
    \/ session_close(1)
    \/ Return(1) /\ Forget(1)
    \/ \E h \in Headers : health_check(1, h) /\ Snapshot(1)

Spec == Init /\ [][Next]_vars

\* MaxProcs handlers at a time, over one request per way through the handler
ConcNext ==
    \/ \E url \in DatabaseUrls, key \in {None, "s1"}, reachable \in BOOLEAN :
          Startup(url, key, reachable)
    \/ Stop
    \/ \E p \in Procs, r \in ConcRequests : log_interaction(p, r, "T1") /\ UNCHANGED before
    \/ \E p \in Procs : session_commit(p)
    \/ \E p \in Procs : log_success(p)
    \/ \E p \in Procs : handle_exception(p)
    \/ \E p \in Procs : session_close(p)
    \/ \E p \in Procs : Return(p) /\ UNCHANGED before
    \/ \E p \in Procs : health_check(p, None) /\ UNCHANGED before

ConcSpec == Init /\ [][ConcNext]_vars

(* ------------------------------- claims ------------------------------- *)
Done(p) == pc[p] = "done"
IsPost(p) == req[p].path = "/log_interaction"
IsHealth(p) == req[p].path = "/health"

\* the request carries the configured secret
Authenticated(p) == KeySet(environ.API_KEY) /\ req[p].header = environ.API_KEY

\* a field supplied as a non-empty value: not missing, not null, not ""
NonEmpty(v) == v.type \notin {"absent", "null"} /\ ~(v.type = "string" /\ v.val = "")

\* a body that is not valid JSON, is not an object, or lacks a required field
LacksRequiredFields(b) ==
    \/ b.kind # "object"
    \/ ~NonEmpty(b.userMessage)
    \/ ~NonEmpty(b.gptResponse)

\* the handler's session.commit() was called and raised
CommitRaised(p) == session[p].commits > 0 /\ session[p].rowId = 0

\* the handler's session.commit() returned
CommitReturned(p) == session[p].commits > 0 /\ session[p].rowId # 0

\* what a nullable column holds for an optional key of the request
Optional(v) == IF v.type \in {"absent", "null"} THEN None ELSE v.val

\* the table is `before[p]` plus one row, which has the request's values, an
\* id no earlier row has and a reading of the server's clock
OneRowAdded(p) ==
    /\ Len(rows) = Len(before[p]) + 1
    /\ SubSeq(rows, 1, Len(before[p])) = before[p]
    /\ LET row == rows[Len(rows)]
           b == req[p].body
       IN  /\ row.user_message = b.userMessage.val
           /\ row.gpt_response = b.gptResponse.val
           /\ row.user_id = Optional(b.userId)
           /\ row.conversation_id = Optional(b.conversationId)
           /\ row.id \in Ids
           /\ \A k \in DOMAIN before[p] : before[p][k].id # row.id
           /\ row.timestamp \in ClockReadings

\* C1: an authenticated POST whose body has non-empty userMessage and
\* gptResponse, and whose database write succeeds, is answered 200 and adds
\* exactly one row: the request's values, a fresh id, the server's timestamp.
C1_ValidPostAddsOneRow ==
    \A p \in Procs :
        ( /\ Done(p) /\ IsPost(p) /\ Authenticated(p)
          /\ req[p].body.kind = "object"
          /\ NonEmpty(req[p].body.userMessage) /\ NonEmpty(req[p].body.gptResponse)
          /\ CommitReturned(p) )
        => (resp[p].status = 200 /\ OneRowAdded(p))

\* C1, for the requests whose userMessage and gptResponse are strings: the
\* part of the claim the code keeps.
C1_StringFields ==
    \A p \in Procs :
        ( /\ Done(p) /\ IsPost(p) /\ Authenticated(p)
          /\ req[p].body.kind = "object"
          /\ NonEmpty(req[p].body.userMessage) /\ NonEmpty(req[p].body.gptResponse)
          /\ req[p].body.userMessage.type = "string"
          /\ req[p].body.gptResponse.type = "string"
          /\ CommitReturned(p) )
        => (resp[p] = Success /\ OneRowAdded(p))

\* C2, as stated: a POST with no X-API-KEY header, or with one that differs
\* from the configured secret, is answered 401 and persists no row, in every
\* configuration and whatever its body.
C2_BadKeyIs401Always ==
    \A p \in Procs :
        ( /\ Done(p) /\ IsPost(p)
          /\ (req[p].header = None \/ req[p].header # environ.API_KEY) )
        => (resp[p].status = 401 /\ rows = before[p])

\* C2, amended: when a secret is configured, a POST with no X-API-KEY header,
\* or with one that differs from the secret, is answered 401, opens no
\* session and persists no row, whatever its body.
C2_BadKeyIs401 ==
    \A p \in Procs :
        ( /\ Done(p) /\ IsPost(p)
          /\ KeySet(environ.API_KEY)
          /\ (req[p].header = None \/ req[p].header # environ.API_KEY) )
        => ( /\ resp[p] = Unauthorized /\ resp[p].status = 401
             /\ rows = before[p] /\ wrote[p] = 0
             /\ session[p].state = "none" )

C2_Witness ==
    \E p \in Procs :
        /\ Done(p) /\ IsPost(p) /\ KeySet(environ.API_KEY)
        /\ req[p].header = None
        /\ req[p].body = ValidBody
        /\ resp[p].status = 401
        /\ Len(rows) > 0

\* C3: an authenticated POST whose body is not valid JSON, is not a JSON
\* object, or lacks a non-empty userMessage or gptResponse is answered 400
\* and persists no row.
C3_InvalidBodyIs400 ==
    \A p \in Procs :
        ( /\ Done(p) /\ IsPost(p) /\ Authenticated(p)
          /\ LacksRequiredFields(req[p].body) )
        => (resp[p].status = 400 /\ rows = before[p])

\* C4: when session.commit() raises in an authenticated, valid POST, the
\* session is rolled back before the response is built, the response is the
\* 500 with a JSON error body, the table holds the rows it held before the
\* request, and commit was called once.
C4_WriteFailure ==
    \A p \in Procs :
        ( /\ CommitRaised(p) /\ IsPost(p)
          /\ (pc[p] \in {"finally", "done"} \/ resp[p] # NoResp) )
        => ( /\ resp[p] = StorageError /\ resp[p].status = 500 /\ resp[p].json
             /\ session[p].rolledBack
             /\ session[p].pending = <<>>
             /\ rows = before[p] /\ wrote[p] = 0
             /\ session[p].commits = 1 )

C4_Witness ==
    \E p \in Procs :
        /\ Done(p) /\ CommitRaised(p) /\ Authenticated(p)
        /\ resp[p] = StorageError
        /\ session[p].rolledBack
        /\ Len(rows) > 0 /\ rows = before[p]

\* C5: while no secret is configured every POST is answered with the
\* configuration error 500 and persists no row, whatever its header and
\* body; once a secret is configured the requests are checked against it.
C5_NoSecretIs500 ==
    \A p \in Procs :
        (Done(p) /\ IsPost(p))
        => ( /\ ~KeySet(environ.API_KEY)
                => ( /\ resp[p] = ConfigError /\ resp[p].status = 500
                     /\ rows = before[p] /\ wrote[p] = 0
                     /\ session[p].state = "none" )
             /\ KeySet(environ.API_KEY)
                => ( /\ resp[p] # ConfigError
                     /\ (resp[p].status = 401) = ~Authenticated(p) ) )

C5_Witness ==
    \E p \in Procs :
        /\ Done(p) /\ IsPost(p)
        /\ ~KeySet(environ.API_KEY)
        /\ req[p].header = None
        /\ resp[p] = ConfigError
        /\ Len(rows) > 0

\* C6: GET /health is answered 200 with the static body, with any X-API-KEY
\* header or none, secret configured or not, table present or not, and the
\* step leaves the table and every session as they were.
C6_HealthStatic ==
    [][ \A p \in Procs :
            (pc[p] = "idle" /\ pc'[p] = "done" /\ IsHealth(p)')
            => ( /\ resp'[p] = Healthy
                 /\ rows' = rows
                 /\ tableExists' = tableExists
                 /\ session' = session ) ]_vars

C6_Witness ==
    \E p \in Procs :
        /\ Done(p) /\ IsHealth(p)
        /\ req[p].header = None
        /\ ~KeySet(environ.API_KEY)
        /\ ~tableExists
        /\ resp[p].status = 200 /\ resp[p].body = "API is running"

\* C7: from every startup configuration (DATABASE_URL and API_KEY set or
\* unset, database reachable or not) module initialisation completes: the
\* process never ends in the import.
C7_StartupCompletes == phase # "crashed"

\* C8: no handler that has returned, or has not started, holds an open
\* session; a session that was opened is closed on every path; a request
\* answered 401, 400 or with the configuration 500 never opened one.
C8_SessionsClosed ==
    \A p \in Procs :
        /\ pc[p] \in {"idle", "done"} => session[p].state # "open"
        /\ (Done(p) /\ session[p].commits > 0) => session[p].state = "closed"
        /\ (Done(p) /\ (resp[p].status \in {400, 401} \/ resp[p] = ConfigError))
              => session[p].state = "none"

C8_Witness ==
    \E p \in Procs, q \in Procs :
        /\ p # q
        /\ Done(p) /\ session[p].state = "closed"
        /\ CommitReturned(p) /\ resp[p].status = 500
        /\ pc[q] = "except" /\ session[q].state = "open"

\* C9: a request adds a row exactly if it is answered 200: every completed
\* POST answered 200 added one row, every POST answered 400, 401 or 500
\* added none.
C9_RowIffSuccess ==
    \A p \in Procs :
        (Done(p) /\ IsPost(p))
        => wrote[p] = (IF resp[p].status = 200 THEN 1 ELSE 0)

UniqueIds == \A j \in DOMAIN rows, k \in DOMAIN rows : rows[j].id = rows[k].id => j = k

NonEmptyMessages ==
    \A k \in DOMAIN rows :
        /\ rows[k].user_message \notin {None, ""}
        /\ rows[k].gpt_response \notin {None, ""}

AppendOnly == Len(rows') >= Len(rows) /\ SubSeq(rows', 1, Len(rows)) = rows

\* C10: the table is append-only with unique ids: every step (a startup, a
\* request, a health check) keeps every committed row as it was, and in
\* every state the ids are pairwise distinct and user_message and
\* gpt_response are non-empty.
C10_AppendOnlyUniqueIds == [][AppendOnly /\ UniqueIds' /\ NonEmptyMessages']_vars

C10_Witness ==
    /\ Len(rows) >= 2
    /\ phase = "serving"
    /\ \E p \in Procs : pc[p] = "except" /\ CommitRaised(p) /\ tableExists
====
